---- MODULE Spec2Model ----
(***************************************************************************)
(* Child-process lifecycle of sys::run / sys::kill / sys::quit / sys::wait *)
(* (src/src/main.cpp, lines 337-562), for both build variants: the POSIX   *)
(* fork/exec/signal backend and the _WIN32 CreateProcess backend.          *)
(*                                                                         *)
(* The parent's descriptor table, every child's descriptor table, the      *)
(* kernel's process table and the position of each calling thread inside   *)
(* run and wait are state.  Descriptor numbers are the real ones: pipe()   *)
(* hands out the two lowest free numbers.                                  *)
(*                                                                         *)
(* Taken alone, with specifications of their own: the status decode of     *)
(* sys::wait, the _WIN32 command line of sys::run, and the test runner of  *)
(* main (lines 18-44, 204-259).                                            *)
(***************************************************************************)
EXTENDS Integers, Sequences, FiniteSets, TLC

\* ------------------------------------------------------------- bounds ----
\* number of run calls made in one behaviour
MaxRuns == 2
\* size of a descriptor table (RLIMIT_NOFILE)
MaxFd == 15
\* number of wait calls the callers make on one handle
MaxWaits == 2
\* number of elements of an argument vector, and length of an element
MaxArgs == 3
MaxArgLen == 2
\* number of tests main runs
MaxTests == 3

\* the threads of control of the calling program
Threads == {"T1", "T2"}
\* exit codes a started program may choose
ExitCodes == {0, 1}

\* ----------------------------------------------------- program constants
invalid == -1
EXIT_FAILURE == 1
SIGINT == 2
SIGTERM == 15
\* the size of the command buffer, char cmd[MAX_PATH]
MAX_PATH == 260

Platforms == {"posix", "win32"}
Fds == 0 .. (MaxFd - 1)
Slots == 1 .. MaxRuns

\* --------------------------------------------------- descriptor contents
\* What a slot of a descriptor table refers to.
Closed == 0
Std == 1
RdEnd(p) == 2 * p
WrEnd(p) == 2 * p + 1
\* the pipe constructed as pair[i] by the s-th run call
PipeOf(s, i) == 3 * (s - 1) + i + 1

Min(S) == CHOOSE x \in S : \A y \in S : x <= y

\* ------------------------------------------------ raw wait status (POSIX)
ExitStatus(code) == (code % 256) * 256
SigStatus(sig) == sig
WIFEXITED(s) == (s % 128) = 0
WEXITSTATUS(s) == (s \div 256) % 256
WIFSTOPPED(s) == (s % 256) = 127
WSTOPSIG(s) == (s \div 256) % 256
WIFSIGNALED(s) == (s % 128) # 0 /\ (s % 128) # 127
WTERMSIG(s) == s % 128

\* sys::wait, lines 544-559: the value returned for a raw status
Decode(status) ==
  IF WIFEXITED(status) THEN WEXITSTATUS(status)
  ELSE IF WIFSTOPPED(status) THEN WSTOPSIG(status)
  ELSE IF WIFSIGNALED(status) THEN WTERMSIG(status)
  ELSE status

\* ------------------------------------------------------- pipe objects ---
\* sys::file::pipe / sys::win::pipe: two descriptors, [0] read and [1] write,
\* each a number of the table or invalid.
NoPipe == [j \in 0 .. 1 |-> invalid]
NoPair == [i \in 0 .. 2 |-> NoPipe]

\* The pipe constructor: pipe() takes the two lowest free numbers; on failure
\* the object holds two invalid descriptors.
PipeCtor(f, p, ok) ==
  LET free == {n \in Fds : f[n] = Closed}
  IN IF ok /\ Cardinality(free) >= 2
     THEN LET r == Min(free)
              w == Min(free \ {r})
          IN [f |-> [f EXCEPT ![r] = RdEnd(p), ![w] = WrEnd(p)],
              obj |-> [j \in 0 .. 1 |-> IF j = 0 THEN r ELSE w]]
     ELSE [f |-> f, obj |-> NoPipe]

\* fail(pipe): the constructor did not get its descriptors
PipeFail(obj) == obj[0] = invalid \/ obj[1] = invalid

\* the descriptors the three pipe objects still own
Owned(pr) == {pr[i][j] : i \in 0 .. 2, j \in 0 .. 1} \ {invalid}

\* The destructors of pair[3]: every descriptor still owned is closed.
PipeDtor(f, pr) == [n \in Fds |-> IF n \in Owned(pr) THEN Closed ELSE f[n]]

\* --------------------------------------------------------------- state --
VARIABLES
  platform,   \* the build variant (#ifdef _WIN32)
  fdt,        \* the parent's descriptor table
  inh,        \* win32: the parent's handles marked inheritable
  proc,       \* the processes created by run, by pid
  th,         \* each thread's position and locals
  nruns,      \* run calls started so far
  argvOk,     \* per run call: argv[0] names an existing executable
  runRet,     \* per run call: the value run returned (NotYet before)
  fdOut,      \* per run call: the caller's fd[3] array
  waitRet,    \* per handle: the values wait calls returned, in order
  last,       \* the latest kill or quit call, or waitpid failure, and its report
  out,        \* per pipe: the pids whose bytes were written into it
  raw,        \* status decode: the raw status waitpid stored, per wait call
  res,        \* status decode: the value wait returned for it
  argv,       \* _WIN32 command line: the argument vector given to run
  cmd,        \* _WIN32 command line: the buffer handed to CreateProcess
  async,      \* test runner: the tests run asynchronously
  mpc,        \* test runner: the position of main
  rdbuf,      \* test runner: the stream buffer of std::cerr
  rn,         \* test runner: per test, its runner's position and its back
  cap         \* test runner: per stream buffer, the tests whose output it got

\* the state of the parts outside sys::run / kill / quit / wait
aux == <<raw, res, argv, cmd, async, mpc, rdbuf, rn, cap>>

vars == <<platform, fdt, inh, proc, th, nruns, argvOk, runRet, fdOut,
          waitRet, last, out, aux>>

NotYet == -2
Pipes == 1 .. (3 * MaxRuns)
AllClosed == [n \in Fds |-> Closed]

NoProc == [st |-> "none", fds |-> AllClosed, cpair |-> NoPair, status |-> -1,
           ignInt |-> FALSE, ignTerm |-> FALSE, atexit |-> FALSE]

\* what sys::err / sys::warn last had to report: the call, its pid, the error
NoCall == [fn |-> "none", err |-> "none"]
Report(fn, err) == [fn |-> fn, err |-> err]

Idle == [pc |-> "idle", slot |-> 0, pair |-> NoPair, pid |-> 0, h |-> 0,
         status |-> -1]

\* No status is being decoded apart from the wait calls of the threads.
DecodeOff == raw = <<>> /\ res = <<>>
\* No command line is being built.
CmdOff == argv = <<>> /\ cmd = <<>>
\* main is not running tests.
RunnerOff ==
  /\ async = FALSE
  /\ mpc = "off"
  /\ rdbuf = 0
  /\ rn = <<>>
  /\ cap = <<>>

\* The process table and the callers before the first call of run, with the
\* descriptor table t0 the program was started with.
SysInit(t0) ==
  /\ fdt = t0
  /\ inh = {}
  /\ proc = [s \in Slots |-> NoProc]
  /\ th = [t \in Threads |-> Idle]
  /\ nruns = 0
  /\ argvOk = [s \in Slots |-> FALSE]
  /\ runRet = [s \in Slots |-> NotYet]
  /\ fdOut = [s \in Slots |-> [i \in 0 .. 2 |-> invalid]]
  /\ waitRet = [s \in Slots |-> <<>>]
  /\ last = NoCall
  /\ out = [p \in Pipes |-> {}]

\* the descriptor table of a program started with its three standard streams
StdOpen == [n \in Fds |-> IF n <= 2 THEN Std ELSE Closed]

Init ==
  /\ platform \in Platforms
  /\ SysInit(StdOpen)
  /\ DecodeOff
  /\ CmdOff
  /\ RunnerOff

\* the handles the callers hold: what successful run calls returned
Handles == {s \in Slots : runRet[s] = s}

\* a process that has not yet exited
Live(s) == proc[s].st \in {"forked", "ready", "running"}

\* ------------------------------------------------------------ sys::run --
\* Line 407 (341): the three pipe objects are constructed.
RunBegin(t, exists, ok) ==
  /\ th[t].pc = "idle"
  /\ nruns < MaxRuns
  /\ LET s == nruns + 1
         a == PipeCtor(fdt, PipeOf(s, 0), ok[0])
         b == PipeCtor(a.f, PipeOf(s, 1), ok[1])
         c == PipeCtor(b.f, PipeOf(s, 2), ok[2])
         pr == [i \in 0 .. 2 |-> IF i = 0 THEN a.obj
                                  ELSE IF i = 1 THEN b.obj ELSE c.obj]
     IN /\ fdt' = c.f
        /\ inh' = IF platform = "win32" THEN inh \cup Owned(pr) ELSE inh
        /\ th' = [th EXCEPT ![t] =
                    [Idle EXCEPT !.pc = "run", !.slot = s, !.pair = pr]]
        /\ nruns' = s
        /\ argvOk' = [argvOk EXCEPT ![s] = exists]
  /\ UNCHANGED <<aux, platform, proc, runRet, fdOut, waitRet, last, out>>

\* run returns v: the pipe objects go out of scope.
Return(t, v, pr) ==
  /\ fdt' = PipeDtor(fdt, pr)
  /\ inh' = inh \ Owned(pr)
  /\ runRet' = [runRet EXCEPT ![th[t].slot] = v]
  /\ th' = [th EXCEPT ![t] = Idle]

\* Lines 409-415: a pipe could not be made.
RunPipeFail(t) ==
  /\ platform = "posix"
  /\ th[t].pc = "run"
  /\ \E i \in 0 .. 2 : PipeFail(th[t].pair[i])
  /\ Return(t, invalid, th[t].pair)
  /\ UNCHANGED <<aux, platform, proc, nruns, argvOk, fdOut, waitRet, last, out>>

\* Line 417: fork.  The child is a copy of the parent: its descriptor table
\* and its pair[3].
RunFork(t, ok) ==
  /\ platform = "posix"
  /\ th[t].pc = "run"
  /\ \A i \in 0 .. 2 : ~PipeFail(th[t].pair[i])
  /\ IF ok
     THEN /\ proc' = [proc EXCEPT ![th[t].slot] =
                        [NoProc EXCEPT !.st = "forked", !.fds = fdt,
                                       !.cpair = th[t].pair]]
          /\ th' = [th EXCEPT ![t].pc = "parent", ![t].pid = th[t].slot]
     ELSE /\ proc' = proc
          /\ th' = [th EXCEPT ![t].pc = "parent", ![t].pid = invalid]
  /\ UNCHANGED <<aux, platform, fdt, inh, nruns, argvOk, runRet, fdOut, waitRet,
                 last, out>>

\* Mutant of ParentEnd: the parent keeps the end the child uses.
ParentEndMut(i) == IF 0 # i THEN 1 ELSE 0

\* pair[i][0 == i]: the end the parent keeps
ParentEnd(i) == IF 0 = i THEN 1 ELSE 0
\* pair[i][0 != i]: the end the child uses
ChildEnd(i) == IF 0 # i THEN 1 ELSE 0

\* pair[3] after the parent took its three ends with set()
Taken(pr) == [i \in 0 .. 2 |-> [pr[i] EXCEPT ![ParentEnd(i)] = invalid]]

\* Mutant of RunParent: the else is lost, so the parent takes its three ends
\* out of the pipe objects after a failed fork as well.
RunParentMut(t) ==
  /\ platform = "posix"
  /\ th[t].pc = "parent"
  /\ fdOut' = [fdOut EXCEPT ![th[t].slot] =
                [i \in 0 .. 2 |-> th[t].pair[i][IF 0 = i THEN 1 ELSE 0]]]
  /\ fdt' = PipeDtor(fdt, [i \in 0 .. 2 |->
                [th[t].pair[i] EXCEPT ![IF 0 = i THEN 1 ELSE 0] = invalid]])
  /\ inh' = inh
  /\ runRet' = [runRet EXCEPT ![th[t].slot] = th[t].pid]
  /\ th' = [th EXCEPT ![t] = Idle]
  /\ UNCHANGED <<aux, platform, proc, nruns, argvOk, waitRet, last, out>>

\* Lines 418-429: the parent's branch.
RunParent(t) ==
  /\ platform = "posix"
  /\ th[t].pc = "parent"
  /\ IF th[t].pid = invalid
     THEN /\ Return(t, invalid, th[t].pair)
          /\ fdOut' = fdOut
     ELSE /\ fdOut' = [fdOut EXCEPT ![th[t].slot] =
                         [i \in 0 .. 2 |-> th[t].pair[i][ParentEnd(i)]]]
          /\ Return(t, th[t].pid, Taken(th[t].pair))
  /\ UNCHANGED <<aux, platform, proc, nruns, argvOk, waitRet, last, out>>

\* Lines 343-357 (_WIN32): each pipe is checked and its parent end is marked
\* not inheritable.
RunSetInherit(t, ok) ==
  /\ platform = "win32"
  /\ th[t].pc = "run"
  /\ IF \E i \in 0 .. 2 : PipeFail(th[t].pair[i])
     THEN Return(t, invalid, th[t].pair)
     ELSE IF ~ok
     THEN Return(t, invalid, th[t].pair)
     ELSE /\ inh' = inh \ {th[t].pair[i][ParentEnd(i)] : i \in 0 .. 2}
          /\ th' = [th EXCEPT ![t].pc = "create"]
          /\ UNCHANGED <<fdt, runRet>>
  /\ UNCHANGED <<aux, platform, proc, nruns, argvOk, fdOut, waitRet, last, out>>

\* the pipe a descriptor content refers to
PipeNo(d) == d \div 2
IsWrEnd(d) == d >= 2 /\ d % 2 = 1

\* The started program writes its token to its standard output, descriptor 1
\* of table c: the bytes go into the pipe that descriptor refers to.
Written(o, s, c) ==
  IF IsWrEnd(c[1]) THEN [o EXCEPT ![PipeNo(c[1])] = @ \cup {s}] ELSE o

\* CreateProcess with STARTF_USESTDHANDLES and bInheritHandles: the child's
\* standard handles are the three child ends, and it gets every handle of the
\* parent that is inheritable at this moment.
WinChildFds(pr) ==
  [n \in Fds |-> IF n <= 2 THEN fdt[pr[n][ChildEnd(n)]]
                 ELSE IF n \in inh THEN fdt[n] ELSE Closed]

\* Lines 359-403 (_WIN32): the command line, CreateProcess, and the return.
RunCreateProcess(t, ok, ii, it) ==
  /\ platform = "win32"
  /\ th[t].pc = "create"
  /\ IF ok /\ argvOk[th[t].slot]
     THEN /\ proc' = [proc EXCEPT ![th[t].slot] =
                        [NoProc EXCEPT !.st = "running",
                                       !.fds = WinChildFds(th[t].pair),
                                       !.ignInt = ii, !.ignTerm = it]]
          /\ fdOut' = [fdOut EXCEPT ![th[t].slot] =
                         [i \in 0 .. 2 |-> th[t].pair[i][ParentEnd(i)]]]
          /\ out' = Written(out, th[t].slot, WinChildFds(th[t].pair))
          /\ Return(t, th[t].slot, Taken(th[t].pair))
     ELSE /\ Return(t, invalid, th[t].pair)
          /\ UNCHANGED <<proc, fdOut, out>>
  /\ UNCHANGED <<aux, platform, nruns, argvOk, waitRet, last>>

\* ------------------------------------------- the forked child (POSIX) ---
\* Lines 431-449, one pass of the loop: standard descriptor i of the child
\* with table c and pipe objects cp.
SetupIter(c, cp, i) ==
  LET k == cp[i][ChildEnd(i)]
      closeOk == c[i] # Closed
      c1 == [c EXCEPT ![i] = Closed]
      dupOk == k # invalid /\ c1[k] # Closed
      c2 == [c1 EXCEPT ![i] = c1[k]]
      k0 == cp[i][0]
      ok0 == k0 # invalid /\ c2[k0] # Closed
      c3 == [c2 EXCEPT ![k0] = Closed]
      k1 == cp[i][1]
      ok1 == k1 # invalid /\ c3[k1] # Closed
      c4 == [c3 EXCEPT ![k1] = Closed]
  IN IF closeOk /\ dupOk /\ ok0 /\ ok1
     THEN [ok |-> TRUE, fds |-> c4]
     ELSE [ok |-> FALSE, fds |-> c]

\* Lines 431-449: the three passes; ok is FALSE when a pass called exit.
Setup(c, cp) ==
  LET a == SetupIter(c, cp, 0)
      b == IF a.ok THEN SetupIter(a.fds, cp, 1) ELSE a
  IN IF b.ok THEN SetupIter(b.fds, cp, 2) ELSE b

\* The process ends: its descriptors are closed, its status is kept for wait.
\* hooks: the exit ran the handlers registered in the parent (exit, std::exit).
Ended(p, status, hooks) ==
  [p EXCEPT !.st = "exited", !.status = status, !.fds = AllClosed,
            !.cpair = NoPair, !.atexit = hooks, !.ignInt = FALSE,
            !.ignTerm = FALSE]

\* Lines 431-449: the child rewires its standard descriptors.
ChildSetup(s) ==
  /\ proc[s].st = "forked"
  /\ LET r == Setup(proc[s].fds, proc[s].cpair)
     IN proc' = [proc EXCEPT ![s] =
                   IF r.ok
                   THEN [proc[s] EXCEPT !.st = "ready", !.fds = r.fds,
                                        !.cpair = NoPair]
                   ELSE Ended(proc[s], ExitStatus(EXIT_FAILURE), TRUE)]
  /\ UNCHANGED <<aux, platform, fdt, inh, th, nruns, argvOk, runRet, fdOut,
                 waitRet, last, out>>

\* Mutant of ChildExec: nothing ends the child when execvp fails, and it goes
\* on running.
ChildExecMut(s, ii, it) ==
  /\ proc[s].st = "ready"
  /\ proc' = [proc EXCEPT ![s] =
                [proc[s] EXCEPT !.st = "running", !.ignInt = ii,
                                !.ignTerm = it]]
  /\ out' = IF argvOk[s] THEN Written(out, s, proc[s].fds) ELSE out
  /\ UNCHANGED <<aux, platform, fdt, inh, th, nruns, argvOk, runRet, fdOut,
                 waitRet, last>>

\* Lines 451-457: execvp; when it fails res is -1 and the child calls
\* std::exit(res).  ii, it: whether the started program ignores SIGINT, SIGTERM.
\* The program writes its token as it starts.
ChildExec(s, ii, it) ==
  /\ proc[s].st = "ready"
  /\ IF argvOk[s]
     THEN /\ proc' = [proc EXCEPT ![s] =
                        [proc[s] EXCEPT !.st = "running", !.ignInt = ii,
                                        !.ignTerm = it]]
          /\ out' = Written(out, s, proc[s].fds)
     ELSE /\ proc' = [proc EXCEPT ![s] = Ended(proc[s], ExitStatus(-1), TRUE)]
          /\ out' = out
  /\ UNCHANGED <<aux, platform, fdt, inh, th, nruns, argvOk, runRet, fdOut,
                 waitRet, last>>

\* ------------------------------------------------ the started program ---
\* The program ends by itself with an exit code.
ChildExit(s, code) ==
  /\ proc[s].st = "running"
  /\ proc' = [proc EXCEPT ![s] =
                Ended(proc[s], IF platform = "posix" THEN ExitStatus(code)
                               ELSE code, FALSE)]
  /\ UNCHANGED <<aux, platform, fdt, inh, th, nruns, argvOk, runRet, fdOut,
                 waitRet, last, out>>

\* ------------------------------------------------------------ signals --
\* ::kill(pid, sig) finds the process: it is in the process table, running or
\* a zombie not yet waited for.
Signalable(s) == proc[s].st \in {"forked", "ready", "running", "exited"}

\* the signal the started program ignores
Ignores(p, sig) ==
  \/ sig = SIGINT /\ p.ignInt
  \/ sig = SIGTERM /\ p.ignTerm

\* Delivery of sig to process p.  Before exec the child has the dispositions
\* of the parent (the default one: the process is terminated by the signal).
Deliver(p, sig) ==
  IF p.st \in {"forked", "ready"} THEN Ended(p, SigStatus(sig), FALSE)
  ELSE IF p.st = "running" /\ ~Ignores(p, sig)
  THEN Ended(p, SigStatus(sig), FALSE)
  ELSE p

\* Mutant of KillSignal: kill sends the signal of quit.
KillSignalMut == SIGINT

\* The signal sys::kill sends, line 479.
KillSignal == SIGTERM

\* Mutant of Kill: the failure of ::kill / TerminateProcess is not reported.
KillMut(t, h) ==
  /\ th[t].pc = "idle"
  /\ h \in Handles
  /\ proc' = [proc EXCEPT ![h] =
                IF platform = "posix" THEN Deliver(proc[h], SIGTERM)
                ELSE IF proc[h].st = "running" THEN Ended(proc[h], 0, FALSE)
                ELSE proc[h]]
  /\ last' = Report("kill", "none")
  /\ UNCHANGED <<aux, platform, fdt, inh, th, nruns, argvOk, runRet, fdOut,
                 waitRet, out>>

\* Mutant of Kill: kill collects the process it has ended (a waitpid after
\* the signal), so the process is reaped by kill.
KillReaps(t, h) ==
  /\ th[t].pc = "idle"
  /\ h \in Handles
  /\ LET p == IF platform = "posix"
               THEN (IF Signalable(h) THEN Deliver(proc[h], SIGTERM)
                     ELSE proc[h])
               ELSE (IF proc[h].st = "running" THEN Ended(proc[h], 0, FALSE)
                     ELSE proc[h])
     IN proc' = [proc EXCEPT ![h] =
                   IF p.st = "exited" THEN [p EXCEPT !.st = "reaped"] ELSE p]
  /\ last' = Report("kill", IF proc[h].st = "reaped" THEN "ESRCH" ELSE "none")
  /\ UNCHANGED <<aux, platform, fdt, inh, th, nruns, argvOk, runRet, fdOut,
                 waitRet, out>>

\* sys::kill, lines 462-485.  posix: ::kill(pid, SIGTERM), a failure goes to
\* sys::err.  win32: TerminateProcess(h, 0), which fails on a process that
\* has ended.
Kill(t, h) ==
  /\ th[t].pc = "idle"
  /\ h \in Handles
  /\ IF platform = "posix"
     THEN IF Signalable(h)
          THEN /\ proc' = [proc EXCEPT ![h] = Deliver(proc[h], KillSignal)]
               /\ last' = Report("kill", "none")
          ELSE /\ proc' = proc
               /\ last' = Report("kill", "ESRCH")
     ELSE IF proc[h].st = "running"
          THEN /\ proc' = [proc EXCEPT ![h] = Ended(proc[h], 0, FALSE)]
               /\ last' = Report("kill", "none")
          ELSE /\ proc' = proc
               /\ last' = Report("kill", "TerminateProcess")
  /\ UNCHANGED <<aux, platform, fdt, inh, th, nruns, argvOk, runRet, fdOut,
                 waitRet, out>>

\* sys::quit, lines 487-504.  posix: ::kill(pid, SIGINT).  win32:
\* sys::win::msg::quit posts a message to a window of the process, which may
\* reach it (got) or not.
Quit(t, h, got) ==
  /\ th[t].pc = "idle"
  /\ h \in Handles
  /\ IF platform = "posix"
     THEN IF Signalable(h)
          THEN /\ proc' = [proc EXCEPT ![h] = Deliver(proc[h], SIGINT)]
               /\ last' = Report("quit", "none")
          ELSE /\ proc' = proc
               /\ last' = Report("quit", "ESRCH")
     ELSE IF got /\ proc[h].st = "running" /\ ~proc[h].ignInt
          THEN /\ proc' = [proc EXCEPT ![h] = Ended(proc[h], 0, FALSE)]
               /\ last' = Report("quit", "none")
          ELSE /\ proc' = proc
               /\ last' = Report("quit", IF got THEN "none" ELSE "warn")
  /\ UNCHANGED <<aux, platform, fdt, inh, th, nruns, argvOk, runRet, fdOut,
                 waitRet, out>>

\* ----------------------------------------------------------- sys::wait --
\* the threads inside wait(h)
Waiting(h) == {u \in Threads : th[u].pc = "wait" /\ th[u].h = h}

\* A caller enters wait(h), lines 506-533.
WaitBegin(t, h) ==
  /\ th[t].pc = "idle"
  /\ h \in Handles
  /\ Len(waitRet[h]) + Cardinality(Waiting(h)) < MaxWaits
  /\ th' = [th EXCEPT ![t] = [Idle EXCEPT !.pc = "wait", !.h = h]]
  /\ UNCHANGED <<aux, platform, fdt, inh, proc, nruns, argvOk, runRet, fdOut,
                 waitRet, last, out>>

\* wait returns v to its caller.
WaitReturn(t, v) ==
  /\ waitRet' = [waitRet EXCEPT ![th[t].h] = Append(@, v)]
  /\ th' = [th EXCEPT ![t] = Idle]

\* Mutant of WaitPid: waitpid leaves the child waitable (WNOWAIT), so the
\* zombie is not reaped.
WaitPidNoReap(t) ==
  /\ platform = "posix"
  /\ th[t].pc = "wait"
  /\ proc[th[t].h].st = "exited"
  /\ WaitReturn(t, Decode(proc[th[t].h].status))
  /\ UNCHANGED <<aux, platform, fdt, inh, proc, nruns, argvOk, runRet, fdOut,
                 last, out>>

\* Mutant of WaitPid: waitpid(-1, ...) takes any ended child, and its status
\* is returned for the handle asked for.
WaitPidAny(t) ==
  /\ platform = "posix"
  /\ th[t].pc = "wait"
  /\ \E q \in Slots :
       /\ proc[q].st = "exited"
       /\ proc' = [proc EXCEPT ![q].st = "reaped"]
       /\ WaitReturn(t, Decode(proc[q].status))
  /\ UNCHANGED <<aux, platform, fdt, inh, nruns, argvOk, runRet, fdOut, last, out>>

\* Mutant of WaitPid: the loop is not left when waitpid returned the pid.
WaitPidLoop(t) ==
  /\ platform = "posix"
  /\ th[t].pc = "wait"
  /\ ~Live(th[t].h)
  /\ IF proc[th[t].h].st = "exited"
     THEN /\ proc' = [proc EXCEPT ![th[t].h].st = "reaped"]
          /\ last' = last
     ELSE /\ last # Report("waitpid", "ECHILD")
          /\ last' = Report("waitpid", "ECHILD")
          /\ proc' = proc
  /\ UNCHANGED <<aux, platform, fdt, inh, th, nruns, argvOk, runRet, fdOut,
                 waitRet, out>>

\* Lines 534-559: one waitpid(parent, &status, 0) that does not block.  A
\* zombie is reaped and its status decoded; with no such child waitpid fails,
\* sys::err reports it and the loop goes round again.
WaitPid(t) ==
  /\ platform = "posix"
  /\ th[t].pc = "wait"
  /\ ~Live(th[t].h)
  /\ IF proc[th[t].h].st = "exited"
     THEN /\ proc' = [proc EXCEPT ![th[t].h].st = "reaped"]
          /\ WaitReturn(t, Decode(proc[th[t].h].status))
          /\ last' = last
     ELSE /\ last # Report("waitpid", "ECHILD")
          /\ last' = Report("waitpid", "ECHILD")
          /\ UNCHANGED <<proc, waitRet, th>>
  /\ UNCHANGED <<aux, platform, fdt, inh, nruns, argvOk, runRet, fdOut, out>>

\* Lines 510-528 (_WIN32): the process is opened by its id, waited for, and
\* its exit code is returned.  The process object stays: run never closes
\* pi.hProcess (only pi.hThread, line 396).
WaitWin(t) ==
  /\ platform = "win32"
  /\ th[t].pc = "wait"
  /\ proc[th[t].h].st = "exited"
  /\ WaitReturn(t, proc[th[t].h].status)
  /\ UNCHANGED <<aux, platform, fdt, inh, proc, nruns, argvOk, runRet, fdOut,
                 last, out>>

\* ---------------------------------------------------------------- next --
Others ==
  \/ \E t \in Threads, exists \in BOOLEAN, ok \in [0 .. 2 -> BOOLEAN] :
       RunBegin(t, exists, ok)
  \/ \E t \in Threads : RunPipeFail(t)
  \/ \E t \in Threads, ok \in BOOLEAN : RunFork(t, ok)
  \/ \E t \in Threads : RunParent(t)
  \/ \E t \in Threads, ok \in BOOLEAN : RunSetInherit(t, ok)
  \/ \E t \in Threads, ok \in BOOLEAN, ii \in BOOLEAN, it \in BOOLEAN :
       RunCreateProcess(t, ok, ii, it)
  \/ \E s \in Slots : ChildSetup(s)
  \/ \E s \in Slots, ii \in BOOLEAN, it \in BOOLEAN : ChildExec(s, ii, it)
  \/ \E s \in Slots, code \in ExitCodes : ChildExit(s, code)
  \/ \E t \in Threads, h \in Slots : Kill(t, h)
  \/ \E t \in Threads, h \in Slots, got \in BOOLEAN : Quit(t, h, got)
  \/ \E t \in Threads : WaitPid(t)
  \/ \E t \in Threads : WaitWin(t)

\* The callers may call wait on a handle more than once.
Next ==
  \/ Others
  \/ \E t \in Threads, h \in Slots : WaitBegin(t, h)

Spec == Init /\ [][Next]_vars

\* The callers keep to the contract of wait: at most one call per handle.
WaitOnce(t, h) ==
  /\ waitRet[h] = <<>>
  /\ Waiting(h) = {}
  /\ WaitBegin(t, h)

NextOnce ==
  \/ Others
  \/ \E t \in Threads, h \in Slots : WaitOnce(t, h)

\* A thread inside wait keeps running: its waitpid / WaitForSingleObject
\* returns once the process has ended.
SpecOnce ==
  /\ Init
  /\ [][NextOnce]_vars
  /\ \A t \in Threads : WF_vars(WaitPid(t)) /\ WF_vars(WaitWin(t))

\* ====================================================== status decode ====
\* sys::wait, lines 544-559, taken alone: wait calls whose waitpid has stored
\* a raw status, each about to decode it.
Calls == 1 .. 2

\* a stop as the kernel packs it: the signal in the high byte, 127 below
StopStatus(sig) == sig * 256 + 127

\* Raw statuses waitpid may store: normal exits, signal deaths, stops, and
\* statuses that are none of the three (low byte 255, among them the 65535 of
\* a continued process, and the -1 status is initialised to at line 532).
RawStatuses ==
  {ExitStatus(c) : c \in {0, SIGINT, SIGTERM, 255}}
    \cup {SigStatus(g) : g \in {SIGINT, SIGTERM}}
    \cup {StopStatus(g) : g \in {SIGINT, SIGTERM}}
    \cup {255, 65535, -1}

\* which branch of lines 544-559 a raw status takes
Kind(status) ==
  IF WIFEXITED(status) THEN "exited"
  ELSE IF WIFSTOPPED(status) THEN "stopped"
  ELSE IF WIFSIGNALED(status) THEN "signaled"
  ELSE "none"

InitDecode ==
  /\ platform = "posix"
  /\ SysInit(StdOpen)
  /\ CmdOff
  /\ RunnerOff
  /\ raw \in [Calls -> RawStatuses]
  /\ res = [c \in Calls |-> NotYet]

\* Lines 544-559: the call returns the decoded value.
DecodeStatus(c) ==
  /\ res[c] = NotYet
  /\ res' = [res EXCEPT ![c] = Decode(raw[c])]
  /\ UNCHANGED <<platform, fdt, inh, proc, th, nruns, argvOk, runRet, fdOut,
                 waitRet, last, out, raw, argv, cmd, async, mpc, rdbuf, rn,
                 cap>>

NextDecode == \E c \in Calls : DecodeStatus(c)

SpecDecode == InitDecode /\ [][NextDecode]_vars

\* ============================================ closed standard streams ====
\* The descriptor tables a program can be started with: each of 0, 1, 2 open
\* or closed (as after "prog <&-").
StartTables ==
  {[n \in Fds |-> IF n \in S THEN Std ELSE Closed] : S \in SUBSET (0 .. 2)}

InitStd ==
  /\ platform = "posix"
  /\ \E t0 \in StartTables : SysInit(t0)
  /\ DecodeOff
  /\ CmdOff
  /\ RunnerOff

\* sys::run on the fork backend, and the children it makes.
NextStd ==
  \/ \E t \in Threads, exists \in BOOLEAN, ok \in [0 .. 2 -> BOOLEAN] :
       RunBegin(t, exists, ok)
  \/ \E t \in Threads : RunPipeFail(t)
  \/ \E t \in Threads, ok \in BOOLEAN : RunFork(t, ok)
  \/ \E t \in Threads : RunParent(t)
  \/ \E s \in Slots : ChildSetup(s)
  \/ \E s \in Slots, ii \in BOOLEAN, it \in BOOLEAN : ChildExec(s, ii, it)
  \/ \E s \in Slots, code \in ExitCodes : ChildExit(s, code)

SpecStd == InitStd /\ [][NextStd]_vars

\* ============================================== _WIN32 command line ====
\* sys::run, lines 359-388, taken alone.  Characters are their codes.
NUL == 0
Space == 32
Letters == {97, 98}

\* the strings an element of argv may be, and the argument vectors
RECURSIVE StringsUpTo(_)
StringsUpTo(n) ==
  IF n = 0 THEN {<<>>}
  ELSE LET S == StringsUpTo(n - 1)
       IN S \cup {Append(w, c) : w \in S, c \in Letters}

Words == StringsUpTo(MaxArgLen) \ {<<>>}

RECURSIVE VectorsUpTo(_)
VectorsUpTo(n) ==
  IF n = 0 THEN {<<>>}
  ELSE LET S == VectorsUpTo(n - 1)
       IN S \cup {Append(v, w) : v \in S, w \in Words}

Argvs == VectorsUpTo(MaxArgs) \ {<<>>}

\* ZeroMemory(cmd, sizeof cmd), line 360
ZeroBuf == [k \in 0 .. (MAX_PATH - 1) |-> NUL]

\* std::snprintf(buf + j, size, "%s ", w): at most size - 1 characters of w
\* and a space are stored from position j on, then a NUL; nothing when size
\* is 0.  The value returned is the length of w and the space, stored or not.
Snprintf(buf, j, size, w) ==
  LET text == Append(w, Space)
      m == IF Len(text) < size - 1 THEN Len(text) ELSE size - 1
  IN [buf |-> IF size <= 0 THEN buf
              ELSE [k \in DOMAIN buf |->
                      IF k >= j /\ k < j + m THEN text[k - j + 1]
                      ELSE IF k = j + m THEN NUL ELSE buf[k]],
      n |-> Len(text)]

\* the C string that starts at buf[0]: the characters before the first NUL
RECURSIVE CString(_, _)
CString(buf, k) ==
  IF k \notin DOMAIN buf \/ buf[k] = NUL THEN <<>>
  ELSE <<buf[k]>> \o CString(buf, k + 1)

InitCmd ==
  /\ platform = "win32"
  /\ SysInit(StdOpen)
  /\ DecodeOff
  /\ RunnerOff
  /\ argv \in Argvs
  /\ cmd = [pc |-> "build", buf |-> ZeroBuf, i |-> 0, j |-> 0, line |-> <<>>]

\* Lines 361-366, one pass of the loop: argv[i] is printed at cmd + j, then
\* j += n, and the loop's own ++i, ++j.
CmdAppend ==
  /\ cmd.pc = "build"
  /\ cmd.i < Len(argv)
  /\ cmd.j <= MAX_PATH
  /\ LET r == Snprintf(cmd.buf, cmd.j, MAX_PATH - cmd.j, argv[cmd.i + 1])
     IN cmd' = [cmd EXCEPT !.buf = r.buf, !.i = cmd.i + 1,
                           !.j = cmd.j + r.n + 1]
  /\ UNCHANGED <<platform, fdt, inh, proc, th, nruns, argvOk, runRet, fdOut,
                 waitRet, last, out, raw, res, argv, async, mpc, rdbuf, rn,
                 cap>>

\* Lines 376-388: argv[i] is null, the loop is left and CreateProcess takes
\* cmd as its command line, a C string.
CmdCreateProcess ==
  /\ cmd.pc = "build"
  /\ cmd.i = Len(argv)
  /\ cmd' = [cmd EXCEPT !.pc = "created", !.line = CString(cmd.buf, 0)]
  /\ UNCHANGED <<platform, fdt, inh, proc, th, nruns, argvOk, runRet, fdOut,
                 waitRet, last, out, raw, res, argv, async, mpc, rdbuf, rn,
                 cap>>

NextCmd == CmdAppend \/ CmdCreateProcess

SpecCmd == InitCmd /\ [][NextCmd]_vars

\* ======================================== wait on the failure value ====
\* The children of the calling process: forked and not yet reaped.
Children == {q \in Slots : proc[q].st \in {"forked", "ready", "running",
                                           "exited"}}

\* A caller passes to wait the invalid value a failed run returned,
\* lines 506-533: parent = pid = -1, status = -1.
WaitInvalidBegin(t) ==
  /\ th[t].pc = "idle"
  /\ \E s \in Slots : runRet[s] = invalid
  /\ th' = [th EXCEPT ![t] =
              [Idle EXCEPT !.pc = "waitinvalid", !.h = invalid]]
  /\ UNCHANGED <<aux, platform, fdt, inh, proc, nruns, argvOk, runRet, fdOut,
                 waitRet, last, out>>

\* Lines 534-559 with parent = -1, one waitpid(-1, &status, 0) that does not
\* block: it takes any ended child q, stores its status and returns q, which
\* is not parent, so the loop goes round; with no child left it fails with
\* ECHILD and returns -1, which equals parent, so the loop is left and the
\* status stored last is decoded and returned.  _WIN32, lines 510-528:
\* OpenProcess fails, sys::warn, and the invalid value is returned.
WaitInvalid(t) ==
  /\ th[t].pc = "waitinvalid"
  /\ IF platform = "posix"
     THEN \/ \E q \in Slots :
               /\ proc[q].st = "exited"
               /\ proc' = [proc EXCEPT ![q].st = "reaped"]
               /\ th' = [th EXCEPT ![t].status = proc[q].status]
               /\ last' = last
          \/ /\ Children = {}
             /\ proc' = proc
             /\ th' = [th EXCEPT ![t] = Idle]
             /\ last' = Report("waitpid", "ECHILD")
     ELSE /\ proc' = proc
          /\ th' = [th EXCEPT ![t] = Idle]
          /\ last' = Report("wait", "warn")
  /\ UNCHANGED <<aux, platform, fdt, inh, nruns, argvOk, runRet, fdOut,
                 waitRet, out>>

\* The callers call wait once per handle, and may call it on the value a
\* failed run returned.
NextAny ==
  \/ NextOnce
  \/ \E t \in Threads : WaitInvalidBegin(t)
  \/ \E t \in Threads : WaitInvalid(t)

SpecAny == Init /\ [][NextAny]_vars

\* ======================================================= test runner ====
\* runner (lines 18-44) and the part of main that runs the tests and reports
\* (lines 204-254).  Test k has the stream buffer k, that of context[name];
\* buffer 0 is the one std::cerr has when main starts, the real error stream.
\* In cap, the writer 0 is main itself.
Tests == 1 .. MaxTests
Bufs == 0 .. MaxTests

NoRunner == [pc |-> "none", back |-> 0]

InitRunner ==
  /\ platform = "posix"
  /\ SysInit(StdOpen)
  /\ DecodeOff
  /\ CmdOff
  /\ async \in BOOLEAN
  /\ mpc = [pc |-> "launch", k |-> 1]
  /\ rdbuf = 0
  /\ rn = [k \in Tests |-> NoRunner]
  /\ cap = [b \in Bufs |-> {}]

\* Lines 208-222, one pass of the loop: with async the runner is started on
\* a thread of its own (215); without, runner is called (220) and the loop
\* goes on when it has returned.
MainLaunch ==
  /\ mpc.pc = "launch"
  /\ mpc.k <= MaxTests
  /\ IF async \/ mpc.k = 1 THEN TRUE ELSE rn[mpc.k - 1].pc = "done"
  /\ rn' = [rn EXCEPT ![mpc.k].pc = "begin"]
  /\ mpc' = [mpc EXCEPT !.k = mpc.k + 1]
  /\ UNCHANGED <<platform, fdt, inh, proc, th, nruns, argvOk, runRet, fdOut,
                 waitRet, last, out, raw, res, argv, cmd, async, rdbuf, cap>>

\* Lines 225-228: main waits for every job (every call of runner returned).
MainJoin ==
  /\ mpc.pc = "launch"
  /\ mpc.k > MaxTests
  /\ \A k \in Tests : rn[k].pc = "done"
  /\ mpc' = [mpc EXCEPT !.pc = "report"]
  /\ UNCHANGED <<platform, fdt, inh, proc, th, nruns, argvOk, runRet, fdOut,
                 waitRet, last, out, raw, res, argv, cmd, async, rdbuf, rn,
                 cap>>

\* Lines 231-259: main writes the report and the sum to std::cerr, that is
\* into the buffer std::cerr has now.
MainReport ==
  /\ mpc.pc = "report"
  /\ cap' = [cap EXCEPT ![rdbuf] = @ \cup {0}]
  /\ mpc' = [mpc EXCEPT !.pc = "done"]
  /\ UNCHANGED <<platform, fdt, inh, proc, th, nruns, argvOk, runRet, fdOut,
                 waitRet, last, out, raw, res, argv, cmd, async, rdbuf, rn>>

\* Line 21: auto back = out.rdbuf();
RunnerSave(k) ==
  /\ rn[k].pc = "begin"
  /\ rn' = [rn EXCEPT ![k] = [pc |-> "saved", back |-> rdbuf]]
  /\ UNCHANGED <<platform, fdt, inh, proc, th, nruns, argvOk, runRet, fdOut,
                 waitRet, last, out, raw, res, argv, cmd, async, mpc, rdbuf,
                 cap>>

\* Line 24: out.rdbuf(buf);
RunnerSet(k) ==
  /\ rn[k].pc = "saved"
  /\ rdbuf' = k
  /\ rn' = [rn EXCEPT ![k].pc = "set"]
  /\ UNCHANGED <<platform, fdt, inh, proc, th, nruns, argvOk, runRet, fdOut,
                 waitRet, last, out, raw, res, argv, cmd, async, mpc, cap>>

\* Lines 25-42: the test is called; what it writes to std::cerr (and the
\* "is missing" or exception text runner writes itself) goes into the buffer
\* std::cerr has at that moment.  writes: the test has something to say.
RunnerCall(k, writes) ==
  /\ rn[k].pc = "set"
  /\ cap' = IF writes THEN [cap EXCEPT ![rdbuf] = @ \cup {k}] ELSE cap
  /\ rn' = [rn EXCEPT ![k].pc = "called"]
  /\ UNCHANGED <<platform, fdt, inh, proc, th, nruns, argvOk, runRet, fdOut,
                 waitRet, last, out, raw, res, argv, cmd, async, mpc, rdbuf>>

\* Line 43: out.rdbuf(back);
RunnerRestore(k) ==
  /\ rn[k].pc = "called"
  /\ rdbuf' = rn[k].back
  /\ rn' = [rn EXCEPT ![k].pc = "done"]
  /\ UNCHANGED <<platform, fdt, inh, proc, th, nruns, argvOk, runRet, fdOut,
                 waitRet, last, out, raw, res, argv, cmd, async, mpc, cap>>

\* The runner threads access std::cerr without synchronisation; the steps
\* interleave in any order.
NextRunner ==
  \/ MainLaunch
  \/ MainJoin
  \/ MainReport
  \/ \E k \in Tests : RunnerSave(k)
  \/ \E k \in Tests : RunnerSet(k)
  \/ \E k \in Tests, writes \in BOOLEAN : RunnerCall(k, writes)
  \/ \E k \in Tests : RunnerRestore(k)

SpecRunner == InitRunner /\ [][NextRunner]_vars

\* ============================================================== claims ==
\* the descriptor numbers of table f that refer to a pipe of run call s
PipeFds(f, s) ==
  {n \in Fds : f[n] >= 2 /\ PipeNo(f[n]) \in {PipeOf(s, i) : i \in 0 .. 2}}

\* some thread makes the kill / quit call on h in this step
KillStep(h) == \E t \in Threads : Kill(t, h)
QuitStep(h) == \E t \in Threads, got \in BOOLEAN : Quit(t, h, got)

C2_Original == \A h \in Slots : Len(waitRet[h]) <= 1

\* C2, amended: on the fork backend at most one wait call on a handle returns
\* (a second one fails with no such child and retries for ever); on the
\* CreateProcess backend every wait call made after the process ended returns,
\* and all of them return the same exit code.
C2_Amended ==
  \A h \in Slots :
    /\ platform = "posix" => Len(waitRet[h]) <= 1
    /\ \A j, k \in DOMAIN waitRet[h] : waitRet[h][j] = waitRet[h][k]

\* C2 witness: one wait has returned and a second wait on the same handle is
\* inside its loop, waitpid having failed.
C2_Witness ==
  \E h \in Slots, t \in Threads :
    /\ platform = "posix"
    /\ Len(waitRet[h]) = 1
    /\ th[t].pc = "wait" /\ th[t].h = h
    /\ \A u \in Threads \ {t} : th[u].pc = "idle"
    /\ last = Report("waitpid", "ECHILD")

\* ------------------------------------------------------------------ C3 --
\* C3: whenever run returned the invalid value, the parent holds no
\* descriptor of a pipe made by that call, and the call created no process.
C3_FailureClosesAll ==
  \A s \in Slots :
    runRet[s] = invalid => (PipeFds(fdt, s) = {} /\ proc[s].st = "none")

\* C3 witness: a first run call returned the invalid value and a second one
\* succeeded on the lowest descriptor numbers, which the first had given back.
C3_Witness ==
  /\ runRet[1] = invalid
  /\ argvOk[1]
  /\ runRet[2] = 2
  /\ fdOut[2] = [i \in 0 .. 2 |-> IF i = 0 THEN 4 ELSE IF i = 1 THEN 5 ELSE 7]

\* ------------------------------------------------------------------ C4 --
\* C4: whenever run returned a pid, fd[0] is the write end of the stdin pipe,
\* fd[1] the read end of the stdout pipe, fd[2] the read end of the stderr
\* pipe, and these three are the only descriptors of the call's pipes the
\* parent still holds.
C4_ParentEnds ==
  \A s \in Slots :
    runRet[s] = s =>
      /\ \A i \in 0 .. 2 : fdOut[s][i] \in Fds
      /\ fdt[fdOut[s][0]] = WrEnd(PipeOf(s, 0))
      /\ fdt[fdOut[s][1]] = RdEnd(PipeOf(s, 1))
      /\ fdt[fdOut[s][2]] = RdEnd(PipeOf(s, 2))
      /\ PipeFds(fdt, s) = {fdOut[s][i] : i \in 0 .. 2}

\* C4 witness: run has returned a pid and its child is alive (on the fork
\* backend still before its exec).
C4_Witness ==
  \E s \in Slots : runRet[s] = s /\ proc[s].st \in {"forked", "running"}

\* ------------------------------------------------------------------ C5 --
\* the processes, the parent ("parent") or a live child, that hold the write
\* end of pipe p
Writers(p) ==
  {q \in Slots : Live(q) /\ \E n \in Fds : proc[q].fds[n] = WrEnd(p)}
    \cup (IF \E n \in Fds : fdt[n] = WrEnd(p) THEN {0} ELSE {})

\* C5, as stated: once run has returned and its child has ended (closing its
\* descriptors), the readers of its stdout and stderr pipes are at end of
\* stream: no process holds a write end of either pipe.
C5_Original ==
  \A s \in Slots :
    (runRet[s] = s /\ ~Live(s)) =>
      (Writers(PipeOf(s, 1)) = {} /\ Writers(PipeOf(s, 2)) = {})

\* ------------------------------------------------------------------ C6 --
\* C6: every value a wait call on handle s returned is the decoded status of
\* process s, the bytes in the pipe read through the fd[1] of run call s were
\* written by child s alone, and child s wrote into no other pipe.
C6_NoCrossTalk ==
  \A s \in Slots :
    /\ \A k \in DOMAIN waitRet[s] :
         waitRet[s][k] = IF platform = "posix" THEN Decode(proc[s].status)
                         ELSE proc[s].status
    /\ runRet[s] = s => out[PipeNo(fdt[fdOut[s][1]])] \subseteq {s}
    /\ \A p \in Pipes : s \in out[p] => p = PipeOf(s, 1)

\* C6 witness: two children wrote their tokens and ended with different exit
\* codes, and the two waits returned them.
C6_Witness ==
  /\ waitRet[1] = <<0>>
  /\ waitRet[2] = <<1>>
  /\ out[PipeOf(1, 1)] = {1}
  /\ out[PipeOf(2, 1)] = {2}

\* ------------------------------------------------------------------ C7 --
\* C7: a wait call on a handle whose process has ended returns, and then the
\* handle has exactly one outcome (callers calling wait once per handle).
C7_WaitReturns ==
  \A t \in Threads, h \in Slots :
    (th[t].pc = "wait" /\ th[t].h = h /\ proc[h].st = "exited")
      ~> (th[t].pc = "idle" /\ Len(waitRet[h]) = 1)

\* C7 witness: a program ended by itself with code 1 and the wait on its
\* handle returned that one outcome.
C7_Witness ==
  \E h \in Slots :
    /\ argvOk[h]
    /\ waitRet[h] = <<1>>
    /\ \A t \in Threads : th[t].pc = "idle"

\* ------------------------------------------------------------------ C8 --
\* C8, as stated: kill ends any running child, whatever the child does about
\* signals.
C8_Original ==
  [][\A h \in Slots :
       (KillStep(h) /\ proc[h].st = "running") => proc'[h].st = "exited"]_vars

\* ------------------------------------------------------------------ C9 --
\* C9: a running child that ignores the interrupt but not the termination
\* request is unchanged by quit and is ended by kill (fork backend: by
\* SIGTERM; CreateProcess backend: with exit code 0); on the fork backend such
\* a child comes to a signal death by kill alone, and the wait that reaps a
\* process killed by a signal returns that signal's number.
C9_QuitThenKill ==
  [][\A h \in Slots :
       /\ (proc[h].st = "running" /\ proc[h].ignInt /\ ~proc[h].ignTerm) =>
            /\ QuitStep(h) => proc'[h] = proc[h]
            /\ KillStep(h) =>
                 /\ proc'[h].st = "exited"
                 /\ proc'[h].status = IF platform = "posix"
                                      THEN SigStatus(SIGTERM) ELSE 0
            /\ (platform = "posix" /\ proc'[h].st = "exited"
                  /\ WIFSIGNALED(proc'[h].status)) => KillStep(h)
       /\ (platform = "posix" /\ proc[h].st = "exited"
             /\ WIFSIGNALED(proc[h].status) /\ waitRet'[h] # waitRet[h]) =>
            waitRet'[h] = Append(waitRet[h], WTERMSIG(proc[h].status))]_vars

\* C9 witness: quit was called on a running child that ignores the interrupt
\* and not the termination request, and the child is still running.
C9_Witness ==
  \E h \in Slots :
    /\ proc[h].st = "running"
    /\ proc[h].ignInt /\ ~proc[h].ignTerm
    /\ Handles = {h}
    /\ last = Report("quit", "none")
    /\ platform = "posix"

Outcome(h) ==
  IF platform = "posix" THEN Decode(proc[h].status) ELSE proc[h].status

\* C11: a kill or quit call reaps no process: a process not reaped before the
\* call is not reaped after it, an ended process keeps its status, no wait
\* returns by it and no thread is moved; and a wait on a handle whose process
\* has ended, by kill or quit or otherwise, still returns its outcome.
C11_NeverReap ==
  /\ [][\A h \in Slots :
          (KillStep(h) \/ QuitStep(h)) =>
            /\ \A q \in Slots :
                 /\ proc[q].st # "reaped" => proc'[q].st # "reaped"
                 /\ proc[q].st = "exited" => proc'[q] = proc[q]
            /\ waitRet' = waitRet
            /\ th' = th]_vars
  /\ \A t \in Threads, h \in Slots, v \in {0, 1, SIGINT, SIGTERM, 255} :
       (th[t].pc = "wait" /\ th[t].h = h /\ proc[h].st = "exited"
          /\ Outcome(h) = v) ~> (waitRet[h] = <<v>>)

\* C11 witness: kill ended a running child, and the wait made on its handle
\* returned the signal's number.
C11_Witness ==
  \E h \in Slots :
    /\ platform = "posix"
    /\ Handles = {h}
    /\ argvOk[h]
    /\ last = Report("kill", "none")
    /\ proc[h].st = "reaped"
    /\ waitRet[h] = <<SIGTERM>>

\* ----------------------------------------------------------------- C12 --
\* C12, as stated: wait returns the exit code of a normal exit, the stop
\* signal of a stop and the terminating signal of a signal death, each a code
\* and not the packed status, and two raw statuses of different kinds never
\* give the same result.
C12_Original ==
  \A c \in Calls :
    (res[c] # NotYet /\ Kind(raw[c]) # "none") =>
      /\ Kind(raw[c]) = "exited" => res[c] = WEXITSTATUS(raw[c])
      /\ Kind(raw[c]) = "stopped" => res[c] = WSTOPSIG(raw[c])
      /\ Kind(raw[c]) = "signaled" => res[c] = WTERMSIG(raw[c])
      /\ res[c] \in 0 .. 255
      /\ \A d \in Calls :
           (res[d] # NotYet /\ Kind(raw[d]) # "none"
              /\ Kind(raw[d]) # Kind(raw[c])) => res[d] # res[c]

\* ----------------------------------------------------------------- C13 --
\* C13, as stated: the result for a raw status that is none of exited,
\* stopped or signaled differs from every result of a status that is one of
\* the three.
C13_Original ==
  \A c, d \in Calls :
    (res[c] # NotYet /\ res[d] # NotYet
       /\ Kind(raw[c]) = "none" /\ Kind(raw[d]) # "none") => res[c] # res[d]

\* ----------------------------------------------------------------- C14 --
\* C14, as stated: a waitpid call that fails for a reason other than an
\* interruption (here: no such child) is not repeated, the wait call leaves
\* its loop; and a wait call returns an outcome only in a step in which
\* waitpid returned the pid asked for.
C14_Original ==
  [][\A t \in Threads :
       WaitPid(t) =>
         /\ proc[th[t].h].st # "exited" => th'[t].pc # "wait"
         /\ waitRet' # waitRet => proc[th[t].h].st = "exited"]_vars

\* ----------------------------------------------------------------- C16 --
\* C16, as stated: a forked child that ends by itself without having started
\* a program (argv[0] names no executable, so it ended in its setup or at the
\* failed execvp) has a failure status and has not run the exit handlers,
\* static destructors and stream flushes it inherited from the parent.
C16_Original ==
  \A s \in Slots :
    (platform = "posix" /\ proc[s].st \in {"exited", "reaped"} /\ ~argvOk[s]
       /\ WIFEXITED(proc[s].status)) =>
      (WEXITSTATUS(proc[s].status) # 0 /\ ~proc[s].atexit)

\* ----------------------------------------------------------------- C15 --
\* C15, as stated: every forked child comes to its execvp, whatever numbers
\* its pipes received (it does not end in its setup), and at that moment its
\* descriptor 0 is the read end of the stdin pipe, 1 the write end of the
\* stdout pipe, 2 the write end of the stderr pipe, and no other descriptor
\* of it refers to a pipe of its run call.
C15_Original ==
  \A s \in Slots :
    /\ proc[s].st = "ready" =>
         /\ proc[s].fds[0] = RdEnd(PipeOf(s, 0))
         /\ proc[s].fds[1] = WrEnd(PipeOf(s, 1))
         /\ proc[s].fds[2] = WrEnd(PipeOf(s, 2))
         /\ PipeFds(proc[s].fds, s) = {0, 1, 2}
    /\ ~(/\ proc[s].st = "exited"
          /\ proc[s].atexit
          /\ proc[s].status = ExitStatus(EXIT_FAILURE))

\* ----------------------------------------------------------------- C17 --
\* the elements of v in order, a space after each
RECURSIVE Joined(_)
Joined(v) ==
  IF v = <<>> THEN <<>> ELSE Append(Head(v), Space) \o Joined(Tail(v))

\* C17, as stated: the command line CreateProcess receives holds every
\* element of argv, in order, with single spaces between them.
C17_Original ==
  cmd.pc = "created" =>
    \/ cmd.line = Joined(argv)
    \/ Append(cmd.line, Space) = Joined(argv)

\* ----------------------------------------------------------------- C18 --
\* C18, as stated: a process is reaped only by a wait call on its own
\* handle, which returns its outcome; a wait on the invalid value reaps
\* nothing.
C18_Original ==
  \A s \in Slots : proc[s].st = "reaped" => waitRet[s] # <<>>

\* ----------------------------------------------------------------- C19 --
\* C19, as stated: with async, what a test writes to the error stream is in
\* that test's own buffer, in no other test's buffer and not in the real
\* error stream.
C19_Original ==
  async => \A b \in Bufs, k \in Tests : k \in cap[b] => b = k

\* ----------------------------------------------------------------- C20 --
\* C20, as stated: when all runner calls have returned, serial or async,
\* the stream buffer of std::cerr is the original one, and main's report is
\* written to the real error stream.
C20_Original ==
  /\ mpc.pc = "report" => rdbuf = 0
  /\ \A b \in Bufs : 0 \in cap[b] => b = 0

====
